---- MODULE Spec2Model ----
(***************************************************************************)
(* to-md: the resumable concurrent task-processing subsystem.              *)
(*   src/to_md/task_scheduler.py   TaskScheduler                           *)
(*   src/to_md/logger.py           LogManager (checkpoint, result log)     *)
(*   src/to_md/conversion_engine.py ConversionEngine.convert_file          *)
(*   src/to_md/cli.py              main (one scheduler per program run)    *)
(* The main thread runs create_task_queue and process_queue; the tasks are *)
(* run by the worker threads of a ThreadPoolExecutor.                      *)
(***************************************************************************)
EXTENDS Integers, Sequences, FiniteSets, TLC

\* ------------------------------------------------------------- bounds
MaxFiles == 3
MaxSize == 2
MaxResumeFiles == 2
MaxDirs == 3
MaxStep == 2

\* ------------------------------------------------- program constants
\* task_scheduler.py:132   i % 10 == 0
CheckpointEvery == 10
\* task_scheduler.py:132   len(self.pending_files) // 20
ProgressDivisor == 20

VARIABLES
    track,            \* a track_progress call made from another thread
    tree,             \* the source directory on disk, as FileScanner walks it
    scan_config,      \* config['target_dir'], ['recursive'], ['file_types']
    cli_threads,      \* the --threads option as the user gave it
    file_list,        \* the list handed to create_task_queue
    overwrite,        \* config['overwrite']
    threads,          \* config['threads'] after validate_config
    fs,               \* output paths that exist on disk
    ckpt,             \* the checkpoint file
    completed_files,  \* TaskScheduler.completed_files
    pending_files,    \* TaskScheduler.pending_files
    failed_files,     \* TaskScheduler.failed_files
    pc,               \* position of the main thread
    fstate,           \* state of each future, by submission index
    fresult,          \* status of the result each future holds
    yielded,          \* futures as_completed has yielded
    cur,              \* the future whose result is being handled
    results,          \* LogManager.results
    pbar,             \* the tqdm progress bar
    summary,          \* the value process_queue returned
    interrupted,      \* where KeyboardInterrupt was delivered
    saves,            \* save_checkpoint calls of this run
    convert_calls,    \* convert_file invocations of this run, in order
    run,              \* 1 for the first program run, 2 for the re-run
    prev              \* the first run, for the re-run: the paths whose task
                      \* resolved to Success, the paths whose task failed
                      \* or never resolved, and how the run ended

vars == << track, tree, scan_config, cli_threads,
           file_list, overwrite, threads, fs, ckpt, completed_files,
           pending_files, failed_files, pc, fstate, fresult, yielded,
           cur, results, pbar, summary, interrupted, saves, convert_calls,
           run, prev >>

\* --------------------------------------------------------- data model
\* file_scanner.py collect_file_metadata: the fields the scheduler reads.
FileInfo(p, s, o) == [path |-> p, size |-> s, output_path |-> o]

Range(s) == {s[i] : i \in 1..Len(s)}

PathsOf(s) == {s[i].path : i \in 1..Len(s)}

NoCheckpoint == [exists |-> FALSE, completed |-> << >>, pending |-> << >>]

NoSummary == [returned |-> FALSE, success |-> 0, failure |-> 0, skipped |-> 0, total |-> 0]

NoPrev == [success |-> {}, unresolved |-> {}, ended |-> "none"]

\* Faulty variant of SaveCheckpoint: the two lists change places.
MutSaveCheckpointSwapped(completed, pending) ==
    [exists |-> TRUE, completed |-> pending, pending |-> completed]

\* logger.py save_checkpoint: the file is rewritten with both lists.
SaveCheckpoint(completed, pending) ==
    [exists |-> TRUE, completed |-> completed, pending |-> pending]

\* The checkpoint file is a record: `exists`, and what the file holds. A
\* JSON object is held as its keys (`completed`, `pending`), any other JSON
\* value under `value`, and bytes that are not JSON under `text`.
UnparsableFile == [exists |-> TRUE, text |-> "{"]

EmptyObjectFile == [exists |-> TRUE]

ArrayFile(v) == [exists |-> TRUE, value |-> v]

\* logger.py load_checkpoint: None (here NoCheckpoint) when the file does
\* not exist or json.load raises JSONDecodeError or IOError; otherwise
\* whatever JSON value the file holds, unvalidated.
LoadCheckpoint(file) ==
    IF ~file.exists \/ "text" \in DOMAIN file THEN NoCheckpoint ELSE file

\* task_scheduler.py line 48, `if checkpoint:`: None, {} and [] are false.
Truthy(checkpoint) ==
    /\ checkpoint.exists
    /\ IF "value" \in DOMAIN checkpoint
       THEN checkpoint.value # << >>
       ELSE DOMAIN checkpoint # {"exists"}

\* task_scheduler.py line 64: checkpoint.get raises AttributeError on a
\* value that is not an object, f['path'] raises KeyError or TypeError on
\* an element that is not a descriptor.
RestoreRaises(checkpoint) ==
    \/ "value" \in DOMAIN checkpoint
    \/ /\ "completed" \in DOMAIN checkpoint
       /\ \E k \in 1..Len(checkpoint.completed) :
              "path" \notin DOMAIN checkpoint.completed[k]

\* task_scheduler.py _restore_from_checkpoint, line 64:
\* checkpoint.get('completed', []).
CompletedPaths(checkpoint) ==
    IF "completed" \in DOMAIN checkpoint THEN PathsOf(checkpoint.completed) ELSE {}

\* task_scheduler.py _restore_from_checkpoint, line 67.
RestoreCompleted(pending, checkpoint) ==
    SelectSeq(pending, LAMBDA f : f.path \in CompletedPaths(checkpoint))

\* Faulty variant of RestorePending: the completed descriptors are not filtered out.
MutRestorePendingAll(pending, checkpoint) == pending

\* task_scheduler.py _restore_from_checkpoint, line 68.
RestorePending(pending, checkpoint) ==
    SelectSeq(pending, LAMBDA f : f.path \notin CompletedPaths(checkpoint))

\* Faulty variant of InsertBySize: an unstable sort, equal sizes change places.
RECURSIVE MutInsertBeforeEqual(_, _)
MutInsertBeforeEqual(sorted, f) ==
    IF sorted = << >> THEN << f >>
    ELSE IF Head(sorted).size < f.size
         THEN << Head(sorted) >> \o MutInsertBeforeEqual(Tail(sorted), f)
         ELSE << f >> \o sorted

\* list.sort(key=size) is stable: an element goes after every element of
\* the sorted prefix whose key is not larger.
RECURSIVE InsertBySize(_, _)
InsertBySize(sorted, f) ==
    IF sorted = << >> THEN << f >>
    ELSE IF Head(sorted).size <= f.size
         THEN << Head(sorted) >> \o InsertBySize(Tail(sorted), f)
         ELSE << f >> \o sorted

RECURSIVE SortBySize(_)
SortBySize(s) ==
    IF s = << >> THEN << >>
    ELSE InsertBySize(SortBySize(SubSeq(s, 1, Len(s) - 1)), s[Len(s)])

Max(a, b) == IF a >= b THEN a ELSE b

\* task_scheduler.py line 132: the periodic-save condition.
ShouldSave(i, npending) ==
    \/ i % CheckpointEvery = 0
    \/ i % Max(1, npending \div ProgressDivisor) = 0

\* A future that holds no result yet.
NoResult == [status |-> "none", duration |-> 0]

\* task_scheduler.py _process_file lines 181-187.
SkippedResult == [status |-> "skipped", duration |-> 0]

\* task_scheduler.py _process_file lines 190-200: a raised fault becomes a
\* failure result of duration 0; otherwise the Converter's own result is
\* returned, whose duration is the time the call took (conversion_engine.py
\* lines 116, 124, 134), here 1.
ConvertResult(outcome) ==
    IF outcome = "raise"
    THEN [status |-> "failure", duration |-> 0]
    ELSE [status |-> outcome, duration |-> 1]

\* Faulty variant of BookCompleted: a failure is booked as completed as well.
MutBookCompletedAlways(completed, result, file_info) ==
    IF result.status \in {"success", "failure"}
    THEN Append(completed, file_info) ELSE completed

\* task_scheduler.py lines 123-124.
BookCompleted(completed, result, file_info) ==
    IF result.status = "success" THEN Append(completed, file_info) ELSE completed

\* Faulty variant of BookFailed: a failure result is dropped.
MutBookFailedNever(failed, result, file_info) == failed

\* Faulty variant of BookFailed: a failure is appended twice.
MutBookFailedTwice(failed, result, file_info) ==
    IF result.status = "failure"
    THEN Append(Append(failed, file_info), file_info) ELSE failed

\* task_scheduler.py lines 125-126.
BookFailed(failed, result, file_info) ==
    IF result.status = "failure" THEN Append(failed, file_info) ELSE failed

\* Faulty variant of SkipIfExists: the overwrite option is ignored.
MutSkipIgnoresOverwrite(f, exists, ow) == f.output_path \in exists

\* task_scheduler.py line 180.
SkipIfExists(f, exists, ow) == f.output_path \in exists /\ ~ow

\* task_scheduler.py lines 162-167.
MakeSummary(completed, failed, pending) ==
    [returned |-> TRUE, success |-> Len(completed), failure |-> Len(failed),
     skipped |-> 0, total |-> Len(pending)]

\* Faulty variant of ZeroSummary: the early return reports the list sizes.
MutSummaryOfLists ==
    [returned |-> TRUE, success |-> Len(completed_files),
     failure |-> Len(failed_files), skipped |-> 0, total |-> Len(pending_files)]

\* task_scheduler.py line 84.
ZeroSummary == [returned |-> TRUE, success |-> 0, failure |-> 0, skipped |-> 0, total |-> 0]

\* Faulty variant of ValidateThreads: the option is taken as given.
MutValidateThreadsAsGiven(t) == t

\* config.py validate_config, lines 102-103.
ValidateThreads(t) == IF t < 1 THEN 1 ELSE t

\* task_scheduler.py track_progress, lines 215-222; the quotient is kept as
\* the pair << numerator, denominator >>, the literal 0 as << 0, 1 >>.
TrackProgress ==
    LET total == Len(pending_files) + Len(completed_files) + Len(failed_files)
    IN  [total |-> total,
         completed |-> Len(completed_files),
         pending |-> Len(pending_files),
         failed |-> Len(failed_files),
         progress |-> IF total > 0 THEN << Len(completed_files), total >> ELSE << 0, 1 >>]

\* No track_progress call has been made.
NoTrack == [at |-> "idle", total |-> 0, info |-> << >>]

Tasks == 1..Len(pending_files)

Active == {i \in DOMAIN fstate : fstate[i] = "converting"}

Queued == {i \in DOMAIN fstate : fstate[i] = "queued"}

\* Futures whose result has been fully handled by the loop body.
Booked == yielded \ {cur}

\* Faulty variant of HasFreeWorker: one thread more than max_workers.
MutHasFreeWorkerExtra(active, max_workers) == Cardinality(active) <= max_workers

\* ThreadPoolExecutor(max_workers): a queued work item is taken only by an
\* idle worker thread, and there are never more than max_workers threads.
HasFreeWorker(active, max_workers) == Cardinality(active) < max_workers

PoolAlive == pc \in {"submit", "loop", "handling", "int_handler", "shutdown", "shutdown_exc"}

\* ------------------------------------------------------------ initial
ThreadCounts == {1, 2}

\* a.txt and a.pdf map to the same a.md (file_scanner.py lines 113-116):
\* when `shared`, the second file has the output path of the first.
OutputOf(i, shared) == IF shared /\ i = 2 THEN 1 ELSE i

\* A descriptor a previous run saw that is no longer in the source tree.
StaleFile == FileInfo(0, 1, 0)

\* The descriptors with the paths in S, in path order.
RECURSIVE ListOf(_, _)
ListOf(S, files) ==
    IF S = {} THEN << >>
    ELSE LET p == CHOOSE x \in S : \A y \in S : x <= y
             f == IF p = 0 THEN StaleFile ELSE files[p]
         IN  << f >> \o ListOf(S \ {p}, files)

\* The file list is given; the source tree it was scanned from is not
\* looked at.
AfterScan ==
    /\ tree = [dirs |-> {}, files |-> {}]
    /\ scan_config = [target_dir |-> -1, recursive |-> TRUE, file_types |-> {}]

\* TaskScheduler.__init__ and LogManager.__init__: a fresh program run.
FreshRun ==
    /\ track = NoTrack
    /\ completed_files = << >>
    /\ pending_files = << >>
    /\ failed_files = << >>
    /\ pc = "idle"
    /\ fstate = << >>
    /\ fresult = << >>
    /\ yielded = {}
    /\ cur = 0
    /\ results = << >>
    /\ pbar = [total |-> 0, n |-> 0, closed |-> FALSE]
    /\ summary = NoSummary
    /\ interrupted = "none"
    /\ saves = 0
    /\ convert_calls = << >>

\* The size of the i-th discovered file where the sizes are not what is
\* looked at: neither ascending nor all different.
DefaultSize(i) == (i % MaxSize) + 1

Outputs(files) == {files[i].output_path : i \in 1..Len(files)}

\* No output file, or one of the planned output files, exists beforehand.
Preexisting(files) == {{}} \cup {{o} : o \in Outputs(files)}

\* One program run with any worker count, shared output paths and user
\* interruptions; the checkpoint, if any, was left by a run that completed
\* the first file and a file that is gone since.
Init ==
    /\ \E n \in 0..MaxFiles : \E shared \in BOOLEAN :
          file_list = [i \in 1..n |-> FileInfo(i, DefaultSize(i), OutputOf(i, shared))]
    /\ overwrite \in BOOLEAN
    /\ cli_threads \in ThreadCounts
    /\ threads = ValidateThreads(cli_threads)
    /\ fs \in Preexisting(file_list)
    /\ \/ ckpt = NoCheckpoint
       \/ LET S == {0, 1} \cap (0..Len(file_list))
          IN  ckpt = SaveCheckpoint(ListOf(S, file_list), ListOf(S, file_list))
    /\ run = 1
    /\ prev = NoPrev
    /\ AfterScan
    /\ FreshRun

\* ---------------------------------------------------- the main thread
\* task_scheduler.py create_task_queue, lines 43-54: an exception of
\* _restore_from_checkpoint leaves create_task_queue.
CreateTaskQueue ==
    /\ pc = "idle"
    /\ LET checkpoint == LoadCheckpoint(ckpt)
           copy == file_list
       IN  IF Truthy(checkpoint) /\ RestoreRaises(checkpoint)
           THEN /\ completed_files' = completed_files
                /\ pending_files' = copy
                /\ pc' = "raised"
           ELSE IF Truthy(checkpoint)
           THEN /\ completed_files' = RestoreCompleted(copy, checkpoint)
                /\ pending_files' = SortBySize(RestorePending(copy, checkpoint))
                /\ pc' = "queued"
           ELSE /\ completed_files' = completed_files
                /\ pending_files' = SortBySize(copy)
                /\ pc' = "queued"
    /\ UNCHANGED << track, tree, scan_config, cli_threads,
                    file_list, overwrite, threads, fs, ckpt, failed_files, fstate,
                    fresult, yielded, cur, results, pbar, summary,
                    interrupted, saves, convert_calls, run, prev >>

\* task_scheduler.py process_queue, lines 82-84: nothing to do.
ProcessQueueEmpty ==
    /\ pc = "queued"
    /\ pending_files = << >>
    /\ summary' = ZeroSummary
    /\ pc' = "returned"
    /\ UNCHANGED << track, tree, scan_config, cli_threads,
                    file_list, overwrite, threads, fs, ckpt, completed_files,
                    pending_files, failed_files, fstate, fresult, yielded,
                    cur, results, pbar, interrupted, saves, convert_calls, run, prev >>

\* task_scheduler.py process_queue, lines 87-99: the progress bar and the
\* pool. ThreadPoolExecutor raises ValueError for max_workers <= 0, which
\* leaves process_queue.
ProcessQueueStart ==
    /\ pc = "queued"
    /\ pending_files # << >>
    /\ pbar' = [total |-> Len(pending_files), n |-> Len(completed_files), closed |-> FALSE]
    /\ IF threads < 1
       THEN /\ pc' = "raised"
            /\ UNCHANGED << fstate, fresult >>
       ELSE /\ fstate' = [i \in Tasks |-> "unsubmitted"]
            /\ fresult' = [i \in Tasks |-> NoResult]
            /\ pc' = "submit"
    /\ UNCHANGED << track, tree, scan_config, cli_threads,
                    file_list, overwrite, threads, fs, ckpt, completed_files,
                    pending_files, failed_files, yielded, cur, results, summary,
                    interrupted, saves, convert_calls, run, prev >>

\* task_scheduler.py lines 101-104: executor.submit for the next pending file.
Submit ==
    /\ pc = "submit"
    /\ LET k == CHOOSE i \in Tasks : fstate[i] = "unsubmitted" /\
                    \A j \in Tasks : fstate[j] = "unsubmitted" => i <= j
       IN  /\ fstate' = [fstate EXCEPT ![k] = "queued"]
           /\ pc' = IF k = Len(pending_files) THEN "loop" ELSE "submit"
    /\ UNCHANGED << track, tree, scan_config, cli_threads,
                    file_list, overwrite, threads, fs, ckpt, completed_files,
                    pending_files, failed_files, fresult, yielded, cur,
                    results, pbar, summary, interrupted, saves, convert_calls,
                    run, prev >>

\* task_scheduler.py lines 108-120: as_completed yields a finished future,
\* its result is fetched and logged.
TakeResult(i) ==
    /\ pc = "loop"
    /\ fstate[i] = "finished"
    /\ i \notin yielded
    /\ yielded' = yielded \cup {i}
    /\ cur' = i
    /\ results' = Append(results, [path |-> pending_files[i].path, status |-> fresult[i].status])
    /\ pc' = "handling"
    /\ UNCHANGED << track, tree, scan_config, cli_threads,
                    file_list, overwrite, threads, fs, ckpt, completed_files,
                    pending_files, failed_files, fstate, fresult, pbar,
                    summary, interrupted, saves, convert_calls, run, prev >>

\* task_scheduler.py lines 123-133: book the result, advance the bar, and
\* save the checkpoint when the loop index asks for it.
BookResult ==
    /\ pc = "handling"
    /\ LET file_info == pending_files[cur]
           i == Cardinality(yielded) - 1
           completed == BookCompleted(completed_files, fresult[cur], file_info)
           failed == BookFailed(failed_files, fresult[cur], file_info)
       IN  /\ completed_files' = completed
           /\ failed_files' = failed
           /\ pbar' = [pbar EXCEPT !.n = @ + 1]
           /\ IF ShouldSave(i, Len(pending_files))
              THEN /\ ckpt' = SaveCheckpoint(completed, pending_files)
                   /\ saves' = saves + 1
              ELSE UNCHANGED << ckpt, saves >>
    /\ cur' = 0
    /\ pc' = "loop"
    /\ UNCHANGED << track, tree, scan_config, cli_threads,
                    file_list, overwrite, threads, fs, pending_files, fstate,
                    fresult, yielded, results, summary, interrupted,
                    convert_calls, run, prev >>

\* task_scheduler.py lines 155-156: as_completed is exhausted, the bar is
\* closed and the with-block is left.
LoopDone ==
    /\ pc = "loop"
    /\ yielded = Tasks
    /\ pbar' = [pbar EXCEPT !.closed = TRUE]
    /\ pc' = "shutdown"
    /\ UNCHANGED << track, tree, scan_config, cli_threads,
                    file_list, overwrite, threads, fs, ckpt, completed_files,
                    pending_files, failed_files, fstate, fresult, yielded,
                    cur, results, summary, interrupted, saves, convert_calls,
                    run, prev >>

\* KeyboardInterrupt is raised in the main thread: inside the try of line
\* 107 (waiting in as_completed, or handling a result) it reaches the
\* handler of line 145; while the futures are still being submitted
\* (lines 101-104) it is outside that try and leaves the with-block.
Interrupt ==
    /\ interrupted = "none"
    /\ pc \in {"submit", "loop", "handling"}
    /\ interrupted' = pc
    /\ pc' = IF pc = "submit" THEN "shutdown" ELSE "int_handler"
    /\ UNCHANGED << track, tree, scan_config, cli_threads,
                    file_list, overwrite, threads, fs, ckpt, completed_files,
                    pending_files, failed_files, fstate, fresult, yielded,
                    cur, results, pbar, summary, saves, convert_calls, run, prev >>

\* task_scheduler.py lines 145-156: save the checkpoint, cancel what has
\* not started, close the bar.
InterruptHandler ==
    /\ pc = "int_handler"
    /\ ckpt' = SaveCheckpoint(completed_files, pending_files)
    /\ saves' = saves + 1
    /\ fstate' = [i \in Tasks |-> IF fstate[i] = "queued" THEN "cancelled" ELSE fstate[i]]
    /\ pbar' = [pbar EXCEPT !.closed = TRUE]
    /\ pc' = "shutdown"
    /\ UNCHANGED << track, tree, scan_config, cli_threads,
                    file_list, overwrite, threads, fs, completed_files,
                    pending_files, failed_files, fresult, yielded, cur,
                    results, summary, interrupted, convert_calls, run, prev >>

\* Leaving the with-block: ThreadPoolExecutor.__exit__ is shutdown(wait=True),
\* which returns once the workers have drained the queue. Then either the
\* pending KeyboardInterrupt leaves process_queue, or lines 159-167 run.
ExitPool ==
    /\ pc = "shutdown"
    /\ Active = {}
    /\ Queued = {}
    /\ IF interrupted = "submit"
       THEN /\ pc' = "raised"
            /\ UNCHANGED << ckpt, saves, summary >>
       ELSE /\ ckpt' = SaveCheckpoint(completed_files, pending_files)
            /\ saves' = saves + 1
            /\ summary' = MakeSummary(completed_files, failed_files, pending_files)
            /\ pc' = "returned"
    /\ UNCHANGED << track, tree, scan_config, cli_threads,
                    file_list, overwrite, threads, fs, completed_files,
                    pending_files, failed_files, fstate, fresult, yielded,
                    cur, results, pbar, interrupted, convert_calls, run, prev >>

\* ------------------------------------------------- the worker threads
\* A worker takes the oldest queued work item (the executor's queue is
\* FIFO; at most `threads` workers exist) and runs _process_file up to the
\* exists-check of line 180: either the skipped result is returned or
\* convert_file is entered (line 191).
WorkerStart ==
    /\ PoolAlive
    /\ Queued # {}
    /\ HasFreeWorker(Active, threads)
    /\ LET k == CHOOSE i \in Queued : \A j \in Queued : i <= j
       IN  IF SkipIfExists(pending_files[k], fs, overwrite)
           THEN /\ fstate' = [fstate EXCEPT ![k] = "finished"]
                /\ fresult' = [fresult EXCEPT ![k] = SkippedResult]
                /\ UNCHANGED convert_calls
           ELSE /\ fstate' = [fstate EXCEPT ![k] = "converting"]
                /\ convert_calls' = Append(convert_calls, pending_files[k].path)
                /\ UNCHANGED fresult
    /\ UNCHANGED << track, tree, scan_config, cli_threads,
                    file_list, overwrite, threads, fs, ckpt, completed_files,
                    pending_files, failed_files, pc, yielded, cur, results,
                    pbar, summary, interrupted, saves, run, prev >>

\* Faulty variant of WorkerConvert: convert_file never comes back, the
\* worker stays inside it.
MutWorkerConvertHangs(i, outcome) ==
    /\ PoolAlive
    /\ fstate[i] = "converting"
    /\ UNCHANGED vars

\* Faulty variant of WorkerConvert: the worker thread books its own success.
MutWorkerConvertBooks(i, outcome) ==
    /\ PoolAlive
    /\ fstate[i] = "converting"
    /\ fresult' = [fresult EXCEPT ![i] = ConvertResult(outcome)]
    /\ fstate' = [fstate EXCEPT ![i] = "finished"]
    /\ fs' = IF outcome = "success" THEN fs \cup {pending_files[i].output_path} ELSE fs
    /\ completed_files' = IF outcome = "success"
                          THEN Append(completed_files, pending_files[i])
                          ELSE completed_files
    /\ UNCHANGED << track, tree, scan_config, cli_threads,
                    file_list, overwrite, threads, ckpt,
                    pending_files, failed_files, pc, yielded, cur, results, pbar,
                    summary, interrupted, saves, convert_calls, run, prev >>

\* conversion_engine.py convert_file returns success (the output file then
\* exists, lines 111-118 and 173-185), returns failure, or raises; the
\* result is what _process_file makes of it.
WorkerConvert(i, outcome) ==
    /\ PoolAlive
    /\ fstate[i] = "converting"
    /\ fresult' = [fresult EXCEPT ![i] = ConvertResult(outcome)]
    /\ fstate' = [fstate EXCEPT ![i] = "finished"]
    /\ fs' = IF outcome = "success" THEN fs \cup {pending_files[i].output_path} ELSE fs
    /\ UNCHANGED << track, tree, scan_config, cli_threads,
                    file_list, overwrite, threads, ckpt, completed_files,
                    pending_files, failed_files, pc, yielded, cur, results, pbar,
                    summary, interrupted, saves, convert_calls, run, prev >>

ConverterOutcomes == {"success", "failure", "raise"}

\* ------------------------------------------------------ the next run
\* cli.py main, lines 63-119: the program is started again on the same
\* source tree; the checkpoint file and the outputs are what the first run
\* left behind.
Restart ==
    /\ run = 1
    /\ pc \in {"returned", "raised"}
    /\ run' = 2
    /\ prev' = [success |-> {pending_files[i].path : i \in
                                {j \in DOMAIN fresult : fresult[j].status = "success"}},
                unresolved |-> {pending_files[i].path : i \in
                                {j \in DOMAIN fresult : fresult[j].status \in {"failure", "none"}}},
                ended |-> IF pc = "raised" THEN "raised"
                          ELSE IF interrupted = "none" THEN "completed"
                          ELSE "interrupted"]
    /\ completed_files' = << >>
    /\ pending_files' = << >>
    /\ failed_files' = << >>
    /\ pc' = "idle"
    /\ fstate' = << >>
    /\ fresult' = << >>
    /\ yielded' = {}
    /\ cur' = 0
    /\ results' = << >>
    /\ pbar' = [total |-> 0, n |-> 0, closed |-> FALSE]
    /\ summary' = NoSummary
    /\ interrupted' = "none"
    /\ saves' = 0
    /\ convert_calls' = << >>
    /\ UNCHANGED << track, tree, scan_config, cli_threads,
                    file_list, overwrite, threads, fs, ckpt >>

Next ==
    \/ CreateTaskQueue
    \/ ProcessQueueEmpty
    \/ ProcessQueueStart
    \/ Submit
    \/ \E i \in DOMAIN fstate : TakeResult(i)
    \/ BookResult
    \/ LoopDone
    \/ Interrupt
    \/ InterruptHandler
    \/ ExitPool
    \/ WorkerStart
    \/ \E i \in DOMAIN fstate : \E outcome \in ConverterOutcomes : WorkerConvert(i, outcome)

Spec == Init /\ [][Next]_vars

\* Queue construction over every size assignment and every checkpoint
\* (any subset of the input and the stale file marked completed), followed
\* by an uninterrupted dispatch on a single worker.
InitQueue ==
    /\ \E n \in 0..MaxFiles : \E sizes \in [1..n -> 1..MaxSize] :
          file_list = [i \in 1..n |-> FileInfo(i, sizes[i], OutputOf(i, FALSE))]
    /\ overwrite = FALSE
    /\ cli_threads = 1
    /\ threads = ValidateThreads(cli_threads)
    /\ fs = {}
    /\ \/ ckpt = NoCheckpoint
       \/ \E S \in SUBSET (0..Len(file_list)) :
             ckpt = SaveCheckpoint(ListOf(S, file_list), ListOf(S, file_list))
    /\ run = 1
    /\ prev = NoPrev
    /\ AfterScan
    /\ FreshRun

NextQueue ==
    \/ CreateTaskQueue
    \/ ProcessQueueEmpty
    \/ ProcessQueueStart
    \/ Submit
    \/ \E i \in DOMAIN fstate : TakeResult(i)
    \/ BookResult
    \/ LoopDone
    \/ ExitPool
    \/ WorkerStart
    \/ \E i \in DOMAIN fstate : \E outcome \in ConverterOutcomes : WorkerConvert(i, outcome)

SpecQueue == InitQueue /\ [][NextQueue]_vars

\* Two program runs over the same input, the first starting without a
\* checkpoint.
InitResume ==
    /\ \E n \in 0..MaxResumeFiles : \E shared \in BOOLEAN :
          file_list = [i \in 1..n |-> FileInfo(i, DefaultSize(i), OutputOf(i, shared))]
    /\ overwrite \in BOOLEAN
    /\ cli_threads \in ThreadCounts
    /\ threads = ValidateThreads(cli_threads)
    /\ fs \in Preexisting(file_list)
    /\ ckpt = NoCheckpoint
    /\ run = 1
    /\ prev = NoPrev
    /\ AfterScan
    /\ FreshRun

NextResume == Next \/ Restart

SpecResume == InitResume /\ [][NextResume]_vars

\* ------------------------------------------- checkpoint store faults
\* logger.py save_checkpoint, lines 180-187, has no handler of its own: when
\* open() raises (unwritable directory, full disk) the exception reaches
\* the caller and the file is left as it was.
\*
\* The periodic save of line 133 raises inside the try of line 110: the
\* result is already booked and the bar advanced (lines 123-129); the
\* handler of lines 135-143 logs a failure for the descriptor, appends it
\* to failed_files and advances the bar again.
BookResultSaveFails ==
    /\ pc = "handling"
    /\ ShouldSave(Cardinality(yielded) - 1, Len(pending_files))
    /\ LET file_info == pending_files[cur]
       IN  /\ completed_files' = BookCompleted(completed_files, fresult[cur], file_info)
           /\ failed_files' = Append(BookFailed(failed_files, fresult[cur], file_info), file_info)
           /\ results' = Append(results, [path |-> file_info.path, status |-> "failure"])
    /\ pbar' = [pbar EXCEPT !.n = @ + 2]
    /\ saves' = saves + 1
    /\ cur' = 0
    /\ pc' = "loop"
    /\ UNCHANGED << track, tree, scan_config, cli_threads,
                    file_list, overwrite, threads, fs, ckpt, pending_files, fstate,
                    fresult, yielded, summary, interrupted, convert_calls,
                    run, prev >>

\* The save of line 149 raises inside the KeyboardInterrupt handler: the
\* cancel loop of lines 151-153 is not reached, the bar is closed (line
\* 156) and the exception leaves the with-block.
InterruptHandlerSaveFails ==
    /\ pc = "int_handler"
    /\ saves' = saves + 1
    /\ pbar' = [pbar EXCEPT !.closed = TRUE]
    /\ pc' = "shutdown_exc"
    /\ UNCHANGED << track, tree, scan_config, cli_threads,
                    file_list, overwrite, threads, fs, ckpt, completed_files,
                    pending_files, failed_files, fstate, fresult, yielded, cur,
                    results, summary, interrupted, convert_calls, run, prev >>

\* The with-block is left by an exception: shutdown(wait=True) lets the
\* workers drain the queue, then the exception leaves process_queue.
ExitPoolRaising ==
    /\ pc = "shutdown_exc"
    /\ Active = {}
    /\ Queued = {}
    /\ pc' = "raised"
    /\ UNCHANGED << track, tree, scan_config, cli_threads,
                    file_list, overwrite, threads, fs, ckpt, completed_files,
                    pending_files, failed_files, fstate, fresult, yielded, cur,
                    results, pbar, summary, interrupted, saves, convert_calls,
                    run, prev >>

\* The final save of line 159 raises: process_queue is left without the
\* Summary of lines 162-167.
FinalSaveFails ==
    /\ pc = "shutdown"
    /\ Active = {}
    /\ Queued = {}
    /\ interrupted # "submit"
    /\ saves' = saves + 1
    /\ pc' = "raised"
    /\ UNCHANGED << track, tree, scan_config, cli_threads,
                    file_list, overwrite, threads, fs, ckpt, completed_files,
                    pending_files, failed_files, fstate, fresult, yielded, cur,
                    results, pbar, summary, interrupted, convert_calls,
                    run, prev >>

\* One program run on one worker, with user interruptions, on a disk where
\* any write of the checkpoint file may fail.
InitFault ==
    /\ \E n \in 0..MaxFiles :
          file_list = [i \in 1..n |-> FileInfo(i, DefaultSize(i), OutputOf(i, FALSE))]
    /\ overwrite = FALSE
    /\ cli_threads = 1
    /\ threads = ValidateThreads(cli_threads)
    /\ fs \in Preexisting(file_list)
    /\ ckpt = NoCheckpoint
    /\ run = 1
    /\ prev = NoPrev
    /\ AfterScan
    /\ FreshRun

NextFault ==
    \/ Next
    \/ BookResultSaveFails
    \/ InterruptHandlerSaveFails
    \/ ExitPoolRaising
    \/ FinalSaveFails

SpecFault == InitFault /\ [][NextFault]_vars

\* ------------------------------------------ checkpoint file contents
\* A checkpoint as save_checkpoint writes it (logger.py lines 180-184): an
\* object with a list of descriptors under `completed`.
WellFormedCheckpoint(file) ==
    /\ file.exists
    /\ "completed" \in DOMAIN file
    /\ \A k \in 1..Len(file.completed) : "path" \in DOMAIN file.completed[k]

\* Queue construction and an uninterrupted dispatch when the checkpoint
\* file is absent, written by a previous run, or holds something else:
\* text that is not JSON, the JSON values {} , [] and [1], an object
\* without `completed`, an object whose `completed` holds an element that
\* is not a descriptor.
InitCkpt ==
    /\ \E n \in 0..MaxFiles :
          file_list = [i \in 1..n |-> FileInfo(i, DefaultSize(i), OutputOf(i, FALSE))]
    /\ overwrite = FALSE
    /\ cli_threads = 1
    /\ threads = ValidateThreads(cli_threads)
    /\ fs = {}
    /\ \/ ckpt = NoCheckpoint
       \/ LET S == {0, 1} \cap (0..Len(file_list))
          IN  ckpt = SaveCheckpoint(ListOf(S, file_list), ListOf(S, file_list))
       \/ ckpt = UnparsableFile
       \/ ckpt = EmptyObjectFile
       \/ ckpt = ArrayFile(<< >>)
       \/ ckpt = ArrayFile(<< 1 >>)
       \/ ckpt = [exists |-> TRUE, pending |-> << >>]
       \/ ckpt = [exists |-> TRUE, completed |-> << [size |-> 1] >>, pending |-> << >>]
    /\ run = 1
    /\ prev = NoPrev
    /\ AfterScan
    /\ FreshRun

SpecCkpt == InitCkpt /\ [][NextQueue]_vars

\* -------------------------------------------------- the file scanner
\* The source directory is directory 0; directory d > 0 is an entry of
\* directory Parent(d). A file is [dir, ext]: the entry "doc.<ext>" of
\* directory dir, and that record is its path.
Parent(d) == (d - 1) \div 2

Children(d) == << 2 * d + 1, 2 * d + 2 >>

\* The suffixes files have on disk.
Exts == << "txt", "PDF" >>

\* str.lower() on a suffix.
Lower(e) == IF e = "PDF" THEN "pdf" ELSE e

\* file_scanner.py line 105: the type of a file is its lower-cased suffix.
TypeOf(path) == Lower(path.ext)

\* file_scanner.py collect_file_metadata, lines 101-126: the size from
\* os.stat, the output path from the relative path without its suffix
\* (the files of one directory share it).
CollectFileMetadata(f) == FileInfo(f, DefaultSize(f.dir), f.dir)

\* Faulty variant of IsTargetDir: the target directory is walked as well.
MutIsTargetDirNever(d, target_dir) == FALSE

\* file_scanner.py line 64: abspath(entry.path) == abspath(target_dir).
IsTargetDir(d, target_dir) == d = target_dir

\* The file entries of directory d, as descriptors.
FilesOf(t, d) ==
    LET entries == SelectSeq([k \in 1..Len(Exts) |-> [dir |-> d, ext |-> Exts[k]]],
                             LAMBDA f : f \in t.files)
    IN  [k \in 1..Len(entries) |-> CollectFileMetadata(entries[k])]

\* Faulty variant of ScanDirectoryRecursive: the recursive option is not
\* looked at.
RECURSIVE MutScanAlwaysRecursive(_, _, _)
MutScanAlwaysRecursive(t, cfg, d) ==
    LET Walk(c) == IF c \in t.dirs /\ ~IsTargetDir(c, cfg.target_dir)
                   THEN MutScanAlwaysRecursive(t, cfg, c)
                   ELSE << >>
    IN  FilesOf(t, d) \o Walk(Children(d)[1]) \o Walk(Children(d)[2])

\* file_scanner.py _scan_directory_recursive, lines 55-65: every file entry
\* of the directory, and the walk of every directory entry that is not the
\* target directory when recursion is on (entries taken files first).
RECURSIVE ScanDirectoryRecursive(_, _, _)
ScanDirectoryRecursive(t, cfg, d) ==
    LET Walk(c) == IF c \in t.dirs /\ cfg.recursive /\ ~IsTargetDir(c, cfg.target_dir)
                   THEN ScanDirectoryRecursive(t, cfg, c)
                   ELSE << >>
    IN  FilesOf(t, d) \o Walk(Children(d)[1]) \o Walk(Children(d)[2])

\* Faulty variant of FilterFiles: the list is returned as scanned.
MutFilterFilesNone(files, file_types) == files

\* file_scanner.py filter_files, lines 84-89.
FilterFiles(files, file_types) ==
    IF file_types = {} THEN files
    ELSE SelectSeq(files, LAMBDA f : TypeOf(f.path) \in file_types)

\* file_scanner.py scan_directory, lines 35-45.
ScanDirectory ==
    /\ pc = "scan"
    /\ file_list' = FilterFiles(ScanDirectoryRecursive(tree, scan_config, 0),
                                scan_config.file_types)
    /\ pc' = "idle"
    /\ UNCHANGED << track, tree, scan_config, cli_threads, overwrite, threads, fs, ckpt,
                    completed_files, pending_files, failed_files, fstate,
                    fresult, yielded, cur, results, pbar, summary,
                    interrupted, saves, convert_calls, run, prev >>

\* Directory d is target or lies below it.
RECURSIVE UnderDir(_, _)
UnderDir(d, target) ==
    \/ d = target
    \/ d > 0 /\ UnderDir(Parent(d), target)

\* Any source tree of up to MaxDirs directories below the source
\* directory, each holding any of the files; the target directory is the
\* source directory, one of the directories, or outside the tree (-1).
InitScan ==
    /\ \E D \in SUBSET (1..MaxDirs) : \E F \in SUBSET {[dir |-> d, ext |-> Exts[k]] :
                                                     d \in D \cup {0}, k \in 1..Len(Exts)} :
          /\ \A d \in D : Parent(d) \in D \cup {0}
          /\ tree = [dirs |-> D \cup {0}, files |-> F]
    /\ \E target \in -1..MaxDirs : \E recursive \in BOOLEAN :
       \E types \in SUBSET {"txt", "pdf"} :
          scan_config = [target_dir |-> target, recursive |-> recursive,
                         file_types |-> types]
    /\ file_list = << >>
    /\ track = NoTrack
    /\ overwrite = FALSE
    /\ cli_threads = 1
    /\ threads = ValidateThreads(cli_threads)
    /\ fs = {}
    /\ ckpt = NoCheckpoint
    /\ completed_files = << >>
    /\ pending_files = << >>
    /\ failed_files = << >>
    /\ pc = "scan"
    /\ fstate = << >>
    /\ fresult = << >>
    /\ yielded = {}
    /\ cur = 0
    /\ results = << >>
    /\ pbar = [total |-> 0, n |-> 0, closed |-> FALSE]
    /\ summary = NoSummary
    /\ interrupted = "none"
    /\ saves = 0
    /\ convert_calls = << >>
    /\ run = 1
    /\ prev = NoPrev

NextScan == ScanDirectory

SpecScan == InitScan /\ [][NextScan]_vars

\* ------------------------------------------------ a long pending list
\* The fewest pending files for which the step of the periodic save,
\* len(pending_files) // 20 (line 132), is MaxStep results.
ManyFiles == MaxStep * ProgressDivisor

\* The future that finished first among those not yet yielded: on one
\* worker the tasks finish in submission order.
FirstFinished(i) ==
    \A j \in DOMAIN fstate : (fstate[j] = "finished" /\ j \notin yielded) => i <= j

\* One uninterrupted run on one worker over ManyFiles files of one size,
\* without checkpoint; every conversion succeeds and as_completed yields
\* the futures in the order they finished.
InitMany ==
    /\ file_list = [i \in 1..ManyFiles |-> FileInfo(i, 1, i)]
    /\ overwrite = FALSE
    /\ cli_threads = 1
    /\ threads = ValidateThreads(cli_threads)
    /\ fs = {}
    /\ ckpt = NoCheckpoint
    /\ run = 1
    /\ prev = NoPrev
    /\ AfterScan
    /\ FreshRun

NextMany ==
    \/ CreateTaskQueue
    \/ ProcessQueueStart
    \/ Submit
    \/ \E i \in DOMAIN fstate : FirstFinished(i) /\ TakeResult(i)
    \/ BookResult
    \/ LoopDone
    \/ ExitPool
    \/ WorkerStart
    \/ \E i \in DOMAIN fstate : WorkerConvert(i, "success")

SpecMany == InitMany /\ [][NextMany]_vars

\* ------------------------------------ track_progress in another thread
\* task_scheduler.py line 215: the monitoring thread reads the three list
\* lengths and keeps their sum in the local `total`. No lock is taken, so
\* the main thread may run between this statement and the next.
TrackTotal ==
    /\ pc \notin {"idle", "scan"}
    /\ track.at \in {"idle", "returned"}
    /\ track' = [at |-> "summed",
                 total |-> Len(pending_files) + Len(completed_files) + Len(failed_files),
                 info |-> << >>]
    /\ UNCHANGED << tree, scan_config, cli_threads, file_list, overwrite, threads,
                    fs, ckpt, completed_files, pending_files, failed_files, pc,
                    fstate, fresult, yielded, cur, results, pbar, summary,
                    interrupted, saves, convert_calls, run, prev >>

\* task_scheduler.py lines 216-222: the returned dict is built from
\* `total` and from the list lengths, which are read again.
TrackReturn ==
    /\ track.at = "summed"
    /\ track' = [at |-> "returned",
                 total |-> track.total,
                 info |-> [total |-> track.total,
                           completed |-> Len(completed_files),
                           pending |-> Len(pending_files),
                           failed |-> Len(failed_files),
                           progress |-> IF track.total > 0
                                        THEN << Len(completed_files), track.total >>
                                        ELSE << 0, 1 >>]]
    /\ UNCHANGED << tree, scan_config, cli_threads, file_list, overwrite, threads,
                    fs, ckpt, completed_files, pending_files, failed_files, pc,
                    fstate, fresult, yielded, cur, results, pbar, summary,
                    interrupted, saves, convert_calls, run, prev >>

\* One uninterrupted run on one worker while another thread calls
\* track_progress again and again.
InitTrack ==
    /\ \E n \in 0..MaxResumeFiles :
          file_list = [i \in 1..n |-> FileInfo(i, DefaultSize(i), OutputOf(i, FALSE))]
    /\ overwrite = FALSE
    /\ cli_threads = 1
    /\ threads = ValidateThreads(cli_threads)
    /\ fs = {}
    /\ ckpt = NoCheckpoint
    /\ run = 1
    /\ prev = NoPrev
    /\ AfterScan
    /\ FreshRun

NextTrack ==
    \/ NextQueue
    \/ TrackTotal
    \/ TrackReturn

SpecTrack == InitTrack /\ [][NextTrack]_vars

\* ------------------------------------------------------ fair scheduling
\* What the main thread does by itself, from create_task_queue to the
\* return of process_queue (task_scheduler.py lines 43-54 and 82-167).
MainStep ==
    \/ CreateTaskQueue
    \/ ProcessQueueEmpty
    \/ ProcessQueueStart
    \/ Submit
    \/ \E i \in DOMAIN fstate : TakeResult(i)
    \/ BookResult
    \/ LoopDone
    \/ ExitPool

\* The main thread runs while it has a step to take, an idle worker of the
\* pool takes the next queued work item, and every convert_file call that
\* was entered comes back.
Fairness ==
    /\ WF_vars(MainStep)
    /\ WF_vars(WorkerStart)
    /\ \A i \in 1..MaxFiles :
          WF_vars(i \in DOMAIN fstate /\
                  \E outcome \in ConverterOutcomes : WorkerConvert(i, outcome))

\* One uninterrupted program run, as in Spec, under fair scheduling.
SpecFair == Init /\ [][NextQueue]_vars /\ Fairness

\* The --threads values a user may give (cli.py line 26: any int).
CliThreadCounts == {-1, 0, 1, 2}

\* One uninterrupted program run for every --threads value, through
\* ConfigManager (cli.py lines 59-60) into the scheduler.
InitConfig ==
    /\ \E n \in 0..MaxFiles :
          file_list = [i \in 1..n |-> FileInfo(i, DefaultSize(i), OutputOf(i, FALSE))]
    /\ overwrite = FALSE
    /\ cli_threads \in CliThreadCounts
    /\ threads = ValidateThreads(cli_threads)
    /\ fs = {}
    /\ ckpt = NoCheckpoint
    /\ run = 1
    /\ prev = NoPrev
    /\ AfterScan
    /\ FreshRun

SpecConfig == InitConfig /\ [][NextQueue]_vars

\* ============================================================ claims
\* C1: from the return of create_task_queue to the return of process_queue,
\* pending, completed and failed are pairwise disjoint and their union is
\* the descriptor list given to create_task_queue.
C1_Partition ==
    pc # "idle" =>
        /\ PathsOf(pending_files) \cap PathsOf(completed_files) = {}
        /\ PathsOf(pending_files) \cap PathsOf(failed_files) = {}
        /\ PathsOf(completed_files) \cap PathsOf(failed_files) = {}
        /\ PathsOf(pending_files) \cup PathsOf(completed_files) \cup PathsOf(failed_files)
               = PathsOf(file_list)

\* C2: when process_queue returns, the three list lengths add up to the
\* number of input descriptors, and pending is empty unless the run was
\* interrupted.
C2_CountsOnReturn ==
    pc = "returned" =>
        /\ Len(completed_files) + Len(failed_files) + Len(pending_files) = Len(file_list)
        /\ interrupted = "none" => pending_files = << >>

\* C3: whatever the Converter does (success, failure result, raised fault),
\* an uninterrupted process_queue never raises; when it returns, it returns
\* a Summary, every pending descriptor has been run and its result handled,
\* and every descriptor whose conversion failed or raised is in failed.
C3_FailuresContained ==
    interrupted = "none" =>
        /\ pc # "raised"
        /\ pc = "returned" =>
              /\ summary.returned
              /\ \A i \in Tasks :
                    /\ fstate[i] = "finished"
                    /\ i \in Booked
                    /\ fresult[i].status \in {"success", "failure", "skipped"}
                    /\ fresult[i].status = "failure" =>
                          \E k \in 1..Len(failed_files) : failed_files[k] = pending_files[i]

\* C3 witness: an uninterrupted run returned after one conversion raised
\* (failure of duration 0), one returned failure and one succeeded.
C3_Witness ==
    /\ pc = "returned"
    /\ interrupted = "none"
    /\ \E i, j, k \in DOMAIN fresult :
          /\ fresult[i] = ConvertResult("raise")
          /\ fresult[j] = ConvertResult("failure")
          /\ fresult[k] = ConvertResult("success")

\* C4: a task that starts while its output path exists and overwrite is
\* false finishes at once with the Skipped result of duration 0 and makes no
\* Converter call; a task that starts otherwise (overwrite true, or no
\* output yet) calls the Converter. A skipped task never has a Converter
\* call in the run.
C4_SkipStep ==
    \A i \in DOMAIN fstate :
        (fstate[i] = "queued" /\ fstate'[i] \notin {"queued", "cancelled"}) =>
            IF pending_files[i].output_path \in fs /\ ~overwrite
            THEN /\ fstate'[i] = "finished"
                 /\ fresult'[i].status = "skipped"
                 /\ fresult'[i].duration = 0
                 /\ convert_calls' = convert_calls
            ELSE /\ fstate'[i] = "converting"
                 /\ convert_calls' = Append(convert_calls, pending_files[i].path)

\* C4, as a property of every step: each task start obeys the skip policy.
C4_SkipPolicy == [][C4_SkipStep]_vars

\* C4 witness: with overwrite false, a task was skipped because of an
\* output that did not exist when the queue was created (another task of the
\* run wrote it), and no Converter call was made for it.
C4_Witness ==
    /\ ~overwrite
    /\ \E i, j \in DOMAIN fresult :
          /\ i # j
          /\ fresult[i].status = "skipped"
          /\ fresult[j].status = "success"
          /\ pending_files[i].output_path = pending_files[j].output_path
          /\ pending_files[i].path \notin Range(convert_calls)
          /\ Len(convert_calls) = 1

\* C5: with a checkpoint, create_task_queue makes completed exactly the
\* input descriptors whose path the checkpoint lists as completed and
\* pending exactly the other input descriptors; checkpoint entries that are
\* not in the input are in neither list.
C5_Restore ==
    (pc = "queued" /\ ckpt.exists) =>
        /\ Range(completed_files) =
               {f \in Range(file_list) : f.path \in PathsOf(ckpt.completed)}
        /\ Range(pending_files) =
               {f \in Range(file_list) : f.path \notin PathsOf(ckpt.completed)}
        /\ Len(completed_files) + Len(pending_files) = Len(file_list)
        /\ \A f \in Range(ckpt.completed) :
               f.path \notin PathsOf(file_list) =>
                   f \notin Range(completed_files) \cup Range(pending_files)

\* C5 witness: the checkpoint lists a file that is gone and one input file;
\* two input files are not in it.
C5_Witness ==
    /\ pc = "queued"
    /\ ckpt.exists
    /\ StaleFile \in Range(ckpt.completed)
    /\ Len(completed_files) = 1
    /\ Len(pending_files) >= 2

InputIndex(f) == CHOOSE k \in 1..Len(file_list) : file_list[k] = f

\* C7: after create_task_queue, pending is in ascending size order with
\* equal sizes in input order; with a single worker the Converter calls are
\* made in exactly the order of pending, and all are made by the time an
\* uninterrupted process_queue returns.
C7_SortedFifo ==
    pc # "idle" =>
        /\ \A i, j \in 1..Len(pending_files) :
              i < j =>
                  \/ pending_files[i].size < pending_files[j].size
                  \/ /\ pending_files[i].size = pending_files[j].size
                     /\ InputIndex(pending_files[i]) < InputIndex(pending_files[j])
        /\ threads = 1 =>
              /\ Len(convert_calls) <= Len(pending_files)
              /\ \A k \in 1..Len(convert_calls) : convert_calls[k] = pending_files[k].path
              /\ (pc = "returned" /\ interrupted = "none") =>
                     Len(convert_calls) = Len(pending_files)

\* C7 witness: a single worker has converted three files whose input order
\* was not their size order, two of them of equal size.
C7_Witness ==
    /\ pc = "returned"
    /\ threads = 1
    /\ Len(convert_calls) = 3
    /\ \E i, j \in 1..Len(pending_files) :
          i < j /\ InputIndex(pending_files[i]) > InputIndex(pending_files[j])
    /\ \E i, j \in 1..Len(pending_files) :
          i < j /\ pending_files[i].size = pending_files[j].size

\* C8: if the checkpoint marks every input descriptor completed, pending is
\* empty after create_task_queue; and process_queue on an empty pending list
\* returns the all-zero Summary with no Converter call, no pool (no future,
\* no progress bar) and no checkpoint write.
C8_NothingToDo ==
    /\ (pc = "queued" /\ ckpt.exists /\ PathsOf(file_list) \subseteq PathsOf(ckpt.completed))
           => pending_files = << >>
    /\ (pc = "returned" /\ pending_files = << >>) =>
           /\ summary = [returned |-> TRUE, success |-> 0, failure |-> 0,
                         skipped |-> 0, total |-> 0]
           /\ convert_calls = << >>
           /\ fstate = << >>
           /\ pbar.total = 0
           /\ saves = 0

\* C8 witness: process_queue has returned in a run whose checkpoint marked
\* all of its two or more input files completed.
C8_Witness ==
    /\ pc = "returned"
    /\ Len(file_list) >= 2
    /\ ckpt.exists
    /\ PathsOf(file_list) \subseteq PathsOf(ckpt.completed)
    /\ completed_files = file_list

\* C9: after a user interruption during dispatch, process_queue does not
\* raise, and when it has returned it has returned a Summary and the
\* checkpoint file holds the scheduler's lists.
C9_InterruptReturns ==
    interrupted # "none" =>
        /\ pc # "raised"
        /\ pc = "returned" =>
              /\ summary.returned
              /\ saves >= 1
              /\ ckpt = SaveCheckpoint(completed_files, pending_files)

\* The interruption handler has just run (lines 145-153).
AfterInterruptSave == pc = "shutdown" /\ interrupted \in {"loop", "handling"}

\* C10 as stated: the completed list of the checkpoint written on
\* interruption is as long as the number of results processed before the
\* interruption.
C10_CompletedIsProcessedCount ==
    AfterInterruptSave =>
        /\ ckpt.exists
        /\ Len(ckpt.completed) = Cardinality(Booked)

\* C10 amended: the checkpoint written on interruption holds the completed
\* and pending lists of that moment; its completed list is as long as the
\* number of descriptors restored from the previous checkpoint plus the
\* number of Success results processed before the interruption.
C10_CheckpointAtInterrupt ==
    AfterInterruptSave =>
        /\ ckpt = SaveCheckpoint(completed_files, pending_files)
        /\ Len(ckpt.completed) =
               (Len(file_list) - Len(pending_files)) +
               Cardinality({i \in Booked : fresult[i].status = "success"})

\* C10 witness: the interruption came after a Success and a Failure result
\* had been processed, with a task still unresolved.
C10_Witness ==
    /\ AfterInterruptSave
    /\ \E i, j \in Booked :
          fresult[i].status = "success" /\ fresult[j].status = "failure"
    /\ Cardinality(Booked) < Len(pending_files)

\* C11: once an interruption has been delivered, no task that had not
\* started by then enters the Converter; a task that is in the Converter is
\* never pre-empted: it stays there until it finishes with its own result.
C11_InterruptStep ==
    /\ interrupted # "none" =>
           /\ convert_calls' = convert_calls
           /\ \A i \in DOMAIN fstate :
                  fstate[i] \in {"unsubmitted", "queued"} => fstate'[i] # "converting"
    /\ \A i \in DOMAIN fstate :
           fstate[i] = "converting" => fstate'[i] \in {"converting", "finished"}

\* C11, as a property of every step.
C11_NoStartAfterInterrupt == [][C11_InterruptStep]_vars

\* C11 with best-effort cancellation: the tasks a worker takes before the
\* main thread has dealt with the interruption are let run, and no task
\* enters the Converter once the main thread is past handling it.
C11_AfterCancellation ==
    [][(interrupted # "none" /\ pc \in {"shutdown", "returned", "raised"})
           => convert_calls' = convert_calls]_vars

\* C12: the number of Converter calls in flight never exceeds the
\* configured worker count.
C12_BoundedParallelism == Cardinality(Active) <= threads

\* C12 witness: every worker of a two-worker pool is inside the Converter
\* while a third task waits in the queue.
C12_Witness ==
    /\ threads = 2
    /\ Cardinality(Active) = 2
    /\ Queued # {}

\* C13: a --threads value of zero or less runs with exactly one worker, a
\* value of one or more is used as given, and process_queue does not fail:
\* the pool is created and the number of tasks in the Converter stays
\* within that worker count.
C13_ClampedThreads ==
    /\ cli_threads < 1 => threads = 1
    /\ cli_threads >= 1 => threads = cli_threads
    /\ pc # "raised"
    /\ Cardinality(Active) <= threads
    /\ (pc = "returned" /\ pending_files # << >>) => Len(convert_calls) = Len(pending_files)

\* C13 witness: a run given --threads 0 (or less) has converted its three
\* files and returned.
C13_Witness ==
    /\ cli_threads < 1
    /\ pc = "returned"
    /\ summary.returned
    /\ Len(convert_calls) = 3

\* C14: a failing checkpoint save does not abort the run (process_queue is
\* left by returning its Summary, never by an exception other than the
\* KeyboardInterrupt of the submit phase), and every descriptor whose
\* result has been handled is in the set its result says and in no other:
\* completed for Success, failed for Failure, neither for Skipped.
C14_SaveFailureHarmless ==
    /\ interrupted # "submit" => pc # "raised"
    /\ pc = "returned" => summary.returned
    /\ \A i \in Booked :
           /\ pending_files[i] \in Range(completed_files) <=> fresult[i].status = "success"
           /\ pending_files[i] \in Range(failed_files) <=> fresult[i].status = "failure"

\* C15: when the checkpoint file holds anything but a well-formed
\* checkpoint, what is loaded is treated as absent: create_task_queue does
\* not raise, and it leaves completed empty and pending the whole input (by
\* size), as without a checkpoint.
C15_MalformedIsAbsent ==
    (ckpt.exists /\ ~WellFormedCheckpoint(ckpt) /\ saves = 0 /\ pc # "idle") =>
        /\ pc # "raised"
        /\ completed_files = << >>
        /\ pending_files = SortBySize(file_list)

\* C15, the part that holds: a file that is not JSON at all is loaded as
\* absent and the queue is built as without a checkpoint.
C15_UnparsableIsAbsent ==
    (ckpt = UnparsableFile /\ pc # "idle") =>
        /\ pc # "raised"
        /\ LoadCheckpoint(ckpt) = NoCheckpoint
        /\ completed_files = << >>
        /\ pending_files = SortBySize(file_list)

\* C16 as stated: whenever an uninterrupted process_queue has returned, a
\* checkpoint was persisted by it and the file's completed list is the
\* scheduler's completed list.
C16_FinalCheckpointAlways ==
    (pc = "returned" /\ interrupted = "none") =>
        /\ saves >= 1
        /\ ckpt.exists
        /\ ckpt.completed = completed_files

\* The step by which an uninterrupted process_queue that dispatched tasks
\* returns.
C16_ReturnStep ==
    (pc # "returned" /\ pc' = "returned" /\ interrupted' = "none" /\ pending_files # << >>) =>
        /\ \A i \in Tasks : fstate[i] = "finished" /\ i \in Booked
        /\ saves' = saves + 1
        /\ ckpt'.exists
        /\ ckpt'.completed = completed_files'
        /\ completed_files' = completed_files
        /\ summary'.returned

\* C16 amended: an uninterrupted process_queue that dispatched at least one
\* task persists a checkpoint in the step that returns, when every
\* dispatched task has resolved and been handled, and the completed list
\* of that checkpoint is the scheduler's final completed list.
C16_FinalCheckpoint == [][C16_ReturnStep]_vars

\* C16 witness: an uninterrupted run has returned with a restored, a
\* converted and a failed descriptor, and the checkpoint file holds its
\* completed list.
C16_Witness ==
    /\ pc = "returned"
    /\ interrupted = "none"
    /\ Len(file_list) > Len(pending_files)
    /\ Len(completed_files) >= 2
    /\ failed_files # << >>
    /\ ckpt.completed = completed_files

\* C17: the Summary of an uninterrupted process_queue adds up (success +
\* failure + skipped = total), and its total is the number of descriptors
\* that were pending, and so dispatched, when process_queue started; also
\* after a checkpoint restored completed descriptors.
C17_SummaryAddsUp ==
    (pc = "returned" /\ interrupted = "none") =>
        /\ summary.success + summary.failure + summary.skipped = summary.total
        /\ summary.total = Len(fstate)

\* C18: the skipped count of the Summary is the number of tasks of the run
\* whose result was Skipped.
C18_SkippedCount ==
    pc = "returned" =>
        summary.skipped =
            Cardinality({i \in DOMAIN fresult : fresult[i].status = "skipped"})

\* C19: after create_task_queue, track_progress reports the three list
\* sizes, a total that is the number of descriptors of the run, and
\* progress = completed / total (0 when total is 0).
C19_TrackProgress ==
    pc # "idle" =>
        /\ TrackProgress.completed = Len(completed_files)
        /\ TrackProgress.pending = Len(pending_files)
        /\ TrackProgress.failed = Len(failed_files)
        /\ TrackProgress.total = Len(file_list)
        /\ TrackProgress.progress =
               IF Len(file_list) = 0 THEN << 0, 1 >>
               ELSE << Len(completed_files), Len(file_list) >>

C22_TypeFilter ==
    (pc = "idle" /\ scan_config.file_types # {}) =>
        /\ PathsOf(file_list) =
               {f \in PathsOf(ScanDirectoryRecursive(tree, scan_config, 0)) :
                    (IF f.ext = "PDF" THEN "pdf" ELSE f.ext) \in scan_config.file_types}
        /\ Len(file_list) = Cardinality(PathsOf(file_list))
        /\ \A k \in 1..Len(file_list) :
               /\ file_list[k].path \in tree.files
               /\ file_list[k].path.ext = "txt" => "txt" \in scan_config.file_types
               /\ file_list[k].path.ext = "PDF" => "pdf" \in scan_config.file_types

\* C22 witness: a scan filtered on {pdf} over a tree that holds files of
\* both types in two directories returned the two PDF files.
C22_Witness ==
    /\ pc = "idle"
    /\ scan_config.file_types = {"pdf"}
    /\ Len(file_list) = 2
    /\ \A k \in 1..Len(file_list) : file_list[k].path.ext = "PDF"
    /\ \E f, g \in tree.files : f.ext = "txt" /\ g.ext = "txt" /\ f.dir # g.dir

\* C23: in every step of process_queue, a descriptor that enters completed
\* or failed comes from pending and leaves it, and a descriptor that is in
\* completed or in failed stays in that set, in no other, and out of
\* pending.
C23_MonotoneStep ==
    pc \notin {"idle", "scan"} =>
        \A f \in Range(file_list) :
            /\ (f \notin Range(completed_files) /\ f \in Range(completed_files')) =>
                   (f \in Range(pending_files) /\ f \notin Range(pending_files'))
            /\ (f \notin Range(failed_files) /\ f \in Range(failed_files')) =>
                   (f \in Range(pending_files) /\ f \notin Range(pending_files'))
            /\ f \in Range(completed_files) =>
                   /\ f \in Range(completed_files')
                   /\ f \notin Range(failed_files') \cup Range(pending_files')
            /\ f \in Range(failed_files) =>
                   /\ f \in Range(failed_files')
                   /\ f \notin Range(completed_files') \cup Range(pending_files')

\* C23, as a property of every step.
C23_Monotone == [][C23_MonotoneStep]_vars

\* C24: a descriptor whose Skipped result has been handled is in completed
\* and not in pending.
C24_SkippedIsCompleted ==
    \A i \in Booked :
        fresult[i].status = "skipped" =>
            /\ pending_files[i] \in Range(completed_files)
            /\ pending_files[i] \notin Range(pending_files)

\* C25: the step that finishes handling a result writes the checkpoint
\* whenever the number of handled results becomes a multiple of 10 or the
\* completed + failed count crosses a multiple of 5% of the run's total.
C25_PeriodicStep ==
    (pc = "handling" /\ pc' = "loop") =>
        LET handled == Cardinality(yielded)
            before == Len(completed_files) + Len(failed_files)
            after == Len(completed_files') + Len(failed_files')
            total == Len(file_list)
        IN  (\/ handled % 10 = 0
             \/ (after * 20) \div total > (before * 20) \div total)
                => /\ saves' = saves + 1
                   /\ ckpt' = SaveCheckpoint(completed_files', pending_files')

\* C25, as a property of every step.
C25_PeriodicSave == [][C25_PeriodicStep]_vars

\* C26: every checkpoint process_queue writes has disjoint completed and
\* pending lists, and its pending list is exactly the descriptors whose
\* result has not been handled when it is written.
C26_SnapshotStep ==
    saves' = saves + 1 =>
        /\ PathsOf(ckpt'.completed) \cap PathsOf(ckpt'.pending) = {}
        /\ PathsOf(ckpt'.pending) =
               {pending_files[i].path : i \in Tasks \ (yielded' \ {cur'})}

\* C26, as a property of every step.
C26_ConsistentSnapshot == [][C26_SnapshotStep]_vars

\* A worker thread takes a step: a task leaves the queue or the Converter.
WorkerStep ==
    \E i \in DOMAIN fstate :
        /\ fstate[i] \in {"queued", "converting"}
        /\ i \in DOMAIN fstate'
        /\ fstate'[i] \in {"converting", "finished"}
        /\ fstate'[i] # fstate[i]

\* C27: during process_queue the three lists change only in the step that
\* finishes handling one result, and the checkpoint file changes only in
\* steps of the main thread; a step of a worker thread changes neither.
C27_SingleWriterStep ==
    /\ WorkerStep =>
           /\ pc' = pc
           /\ UNCHANGED << completed_files, pending_files, failed_files, ckpt, saves >>
    /\ (pc \notin {"idle", "scan", "returned", "raised"}
            /\ << completed_files, pending_files, failed_files >>'
                   # << completed_files, pending_files, failed_files >>)
           => /\ pc = "handling" /\ pc' = "loop"
              /\ ~WorkerStep
    /\ ckpt' # ckpt => pc' # pc /\ ~WorkerStep

\* C27, as a property of every step.
C27_SingleWriter == [][C27_SingleWriterStep]_vars

\* C27 witness: on two workers, a result has been booked and saved while
\* another task is in the Converter and a third has finished unhandled.
C27_Witness ==
    /\ threads = 2
    /\ pc = "loop"
    /\ completed_files # << >>
    /\ saves >= 1
    /\ Active # {}
    /\ \E i \in DOMAIN fstate : fstate[i] = "finished" /\ i \notin yielded

\* The number of entries of s that are x.
Count(s, x) == Cardinality({k \in 1..Len(s) : s[k] = x})

\* C28: whatever the interleaving and the worker count, a pending
\* descriptor enters the Converter at most once and its result is logged
\* and booked at most once; when an uninterrupted run returns, every
\* pending descriptor was dispatched and handled exactly once, and if none
\* was skipped, completed + failed is the number of descriptors of the run.
C28_ExactlyOnce ==
    /\ \A i \in Tasks :
           /\ Count(convert_calls, pending_files[i].path) <= 1
           /\ Cardinality({k \in 1..Len(results) : results[k].path = pending_files[i].path}) <= 1
           /\ Count(completed_files, pending_files[i]) + Count(failed_files, pending_files[i]) <= 1
    /\ (pc = "returned" /\ interrupted = "none") =>
           /\ \A i \in Tasks :
                  /\ Count(convert_calls, pending_files[i].path) =
                         (IF fresult[i].status = "skipped" THEN 0 ELSE 1)
                  /\ Cardinality({k \in 1..Len(results) :
                                     results[k].path = pending_files[i].path}) = 1
           /\ (\A i \in Tasks : fresult[i].status # "skipped") =>
                  Len(completed_files) + Len(failed_files) = Len(file_list)

\* C28 witness: a run on two workers returned after three conversions
\* whose results were handled in another order than they were submitted
\* in, one of them a failure.
C28_Witness ==
    /\ pc = "returned"
    /\ interrupted = "none"
    /\ threads = 2
    /\ Len(convert_calls) = 3
    /\ failed_files # << >>
    /\ completed_files # << >>
    /\ \E k \in 1..(Len(results) - 1) : results[k].path > results[k + 1].path

\* C29: within a run, no descriptor has more than one entry in the result
\* log, and none is booked more than once over completed and failed.
C29_OneResult ==
    \A i \in Tasks :
        /\ Cardinality({k \in 1..Len(results) : results[k].path = pending_files[i].path}) <= 1
        /\ Count(completed_files, pending_files[i]) + Count(failed_files, pending_files[i]) <= 1


\* C30: what a track_progress call made during process_queue returns is a
\* consistent snapshot, total = completed + pending + failed, and the call
\* changes nothing of the scheduler.
C30_ConsistentProgress ==
    track.at = "returned" =>
        track.info.total = track.info.completed + track.info.pending + track.info.failed

\* C30, the part that holds: a step of the track_progress call leaves the
\* scheduler, the log and the checkpoint file as they are.
C30_ReadOnly ==
    [][track' # track =>
          UNCHANGED << completed_files, pending_files, failed_files, ckpt, results,
                       pbar, summary, fstate, fresult, pc, saves >>]_vars


\* C31: if every Converter call terminates and no interruption occurs,
\* process_queue terminates: under fair scheduling of the main thread and
\* the workers, a call that was started eventually returns, and by then
\* every pending descriptor was dispatched to a worker, resolved, and its
\* result was taken from as_completed, logged and handled.
C31_Terminates ==
    (pc = "queued") ~>
        /\ pc = "returned"
        /\ summary.returned
        /\ \A i \in Tasks : fstate[i] = "finished" /\ fresult[i] # NoResult
        /\ pending_files # << >> => yielded = Tasks /\ cur = 0
        /\ pending_files # << >> => Len(results) = Len(pending_files)

\* Two workers have converted three files and process_queue has returned.
C31_Witness ==
    /\ pc = "returned"
    /\ threads = 2
    /\ Len(pending_files) = MaxFiles
    /\ Len(convert_calls) = MaxFiles
    /\ yielded = Tasks


\* The completed descriptors the run restored from the checkpoint: those
\* in completed_files that no handled result of this run put there.
RestoredCount ==
    Len(completed_files) -
        Cardinality({i \in Booked : fresult[i].status = "success"})

\* C32 (first half): process_queue reports exactly one progress increment
\* per processed result: once the pool runs, what the bar has counted
\* beyond its initial position is the number of results handled so far.
C32_OneIncrement ==
    fstate # << >> => pbar.n - RestoredCount = Cardinality(Booked)

\* C32: process_queue reports exactly one progress increment per processed
\* result, and the cumulative progress reported never exceeds the total
\* the progress reporter was given, including in runs resumed from a
\* checkpoint with a non-empty restored completed set.
C32_ProgressWithinTotal ==
    /\ C32_OneIncrement
    /\ pbar.n <= pbar.total


\* The convert_file invocations of this run that wrote output path o: the
\* tasks with that output path whose conversion returned success.
Writers(o) ==
    {i \in DOMAIN fresult : /\ pending_files[i].output_path = o
                            /\ fresult[i].status = "success"}

\* C33: with overwrite false, for any given output_path at most one
\* Converter invocation per run writes it, even when two descriptors with
\* different source paths map to the same output_path and are executed by
\* concurrent workers.
C33_OneWriterPerOutput ==
    ~overwrite => \A o \in Outputs(pending_files) : Cardinality(Writers(o)) <= 1

\* C33 on one worker: the exists-check of a task comes after the
\* conversion of the task before it, and the second task is skipped.
C33_OneWriterSequential ==
    threads = 1 => C33_OneWriterPerOutput


\* The run is over and has written the checkpoint file at least once: the
\* file holds the last checkpoint the run persisted.
RunOverWithCheckpoint == pc \in {"returned", "raised"} /\ saves > 0

\* C34: every descriptor for which the Converter returned Success during
\* a run, including a task that was still in flight when an interruption
\* arrived and finished afterwards, is in the completed list of the last
\* checkpoint that run persists.
C34_SuccessInLastCheckpoint ==
    RunOverWithCheckpoint =>
        \A i \in DOMAIN fresult :
            fresult[i].status = "success" =>
                pending_files[i].path \in PathsOf(ckpt.completed)

\* C34 without an interruption: every result is handled before the final
\* save of line 159.
C34_UninterruptedSuccessSaved ==
    interrupted = "none" => C34_SuccessInLastCheckpoint

====
